---- MODULE Spec2Model ----
(***************************************************************************)
(* Verification model of the foie-gras-dashboard repository.               *)
(*                                                                         *)
(* The repository is a set of independent scripts that share files.  Each  *)
(* script is modelled as its own group of variables and actions, and each  *)
(* has its own specification:                                              *)
(*   SpecScrape  scrape_opentable_menus.main / scrape_doordash_menus.main  *)
(*   SpecYelp    scrape_menus.main                                         *)
(*   SpecDash    dashboard/data_processor.process_data                     *)
(*   SpecApp     dashboard/app.py (get_data and the request handlers)      *)
(*   SpecGen     generate_restaurant_sample.generate_dataset               *)
(*   SpecFetch   generate_restaurant_sample.fetch_restaurants_for_city     *)
(*   SpecSearch  scrape_opentable_menus.search_opentable_urls              *)
(*   SpecCity    scrape_doordash_menus.scrape_city                         *)
(*   SpecAdd     add_more_restaurants                                      *)
(*   SpecPipeline  scrape_opentable_menus.main and add_more_restaurants    *)
(*               on the same files                                         *)
(*   SpecSave    save_progress / load_progress of the scraping scripts     *)
(* Strings on which the code does substring or case work are TLA+ strings, *)
(* on which lower() and `in` are computed character by character.          *)
(***************************************************************************)
EXTENDS Integers, Sequences, FiniteSets, TLC

VARIABLES
    \* scrape_opentable_menus.py / scrape_doordash_menus.py
    script, progressFile, outRestaurants, outMenus,
    pc, idx, completed_cities, all_restaurants, all_menu_items,
    loaded, calls, wrote,
    \* scrape_menus.py
    df, yProgressFile, errorsCsv, outputJson,
    ypc, yidx, processed_ids, results, errors, lastCall,
    \* dashboard/data_processor.py
    restaurants_df, menu_df, output,
    \* dashboard/app.py
    dashboard_data, data_json, csv_files, response,
    \* generate_restaurant_sample.py
    gpc, gidx, restaurants, all_sampled, results_summary,
    \* generate_restaurant_sample.py: fetch_restaurants_for_city
    fpc, max_pages, page_count, next_page_token, places, f_all_restaurants,
    requests, stopped,
    \* scrape_opentable_menus.py: search_opentable_urls
    spc, organic_results, s_target_count, urls,
    \* scrape_doordash_menus.py: scrape_city
    dpc, d_city, d_state, d_target_count, term_idx, d_all_restaurants,
    seen_ids, caught, returned,
    \* add_more_restaurants.py
    apc, a_idx, restaurants_csv, menu_csv, existing_restaurants,
    existing_menu_items, existing_urls, new_urls, all_new_restaurants,
    all_new_menu_items, csv_writes,
    \* save_progress / load_progress of the three scraping scripts
    cpc, checkpoint_file, progress, load_result, saved_before, being_written

scrapeVars == <<script, progressFile, outRestaurants, outMenus, pc, idx,
                completed_cities, all_restaurants, all_menu_items, loaded,
                calls, wrote>>
yelpVars == <<df, yProgressFile, errorsCsv, outputJson, ypc, yidx,
              processed_ids, results, errors, lastCall>>
dashVars == <<restaurants_df, menu_df, output>>
appVars == <<dashboard_data, data_json, csv_files, response>>
genVars == <<gpc, gidx, restaurants, all_sampled, results_summary>>
fetchVars == <<fpc, max_pages, page_count, next_page_token, places,
               f_all_restaurants, requests, stopped>>
searchVars == <<spc, organic_results, s_target_count, urls>>
cityVars == <<dpc, d_city, d_state, d_target_count, term_idx,
              d_all_restaurants, seen_ids, caught, returned>>
addVars == <<apc, a_idx, restaurants_csv, menu_csv, existing_restaurants,
             existing_menu_items, existing_urls, new_urls,
             all_new_restaurants, all_new_menu_items, csv_writes>>
saveVars == <<cpc, checkpoint_file, progress, load_result, saved_before,
              being_written>>
vars == <<scrapeVars, yelpVars, dashVars, appVars, genVars, fetchVars,
          searchVars, cityVars, addVars, saveVars>>
\* What an action of one script leaves alone: the state of the other scripts.
notScrape == <<yelpVars, dashVars, appVars, genVars, fetchVars, searchVars,
               cityVars, addVars, saveVars>>
notYelp == <<scrapeVars, dashVars, appVars, genVars, fetchVars, searchVars,
             cityVars, addVars, saveVars>>
notDash == <<scrapeVars, yelpVars, appVars, genVars, fetchVars, searchVars,
             cityVars, addVars, saveVars>>
notApp == <<scrapeVars, yelpVars, dashVars, genVars, fetchVars, searchVars,
            cityVars, addVars, saveVars>>
notGen == <<scrapeVars, yelpVars, dashVars, appVars, fetchVars, searchVars,
            cityVars, addVars, saveVars>>
notFetch == <<scrapeVars, yelpVars, dashVars, appVars, genVars, searchVars,
              cityVars, addVars, saveVars>>
notSearch == <<scrapeVars, yelpVars, dashVars, appVars, genVars, fetchVars,
               cityVars, addVars, saveVars>>
notCity == <<scrapeVars, yelpVars, dashVars, appVars, genVars, fetchVars,
             searchVars, addVars, saveVars>>
notAdd == <<scrapeVars, yelpVars, dashVars, appVars, genVars, fetchVars,
            searchVars, cityVars, saveVars>>
notSave == <<scrapeVars, yelpVars, dashVars, appVars, genVars, fetchVars,
             searchVars, cityVars, addVars>>

----------------------------------------------------------------------------
(* Generic helpers.                                                        *)

IsPrefix(s, t) == Len(s) <= Len(t) /\ SubSeq(t, 1, Len(s)) = s

Min(a, b) == IF a <= b THEN a ELSE b

RECURSIVE SumSeq(_)
SumSeq(s) == IF s = <<>> THEN 0 ELSE s[1] + SumSeq(Tail(s))

SelectSeqIdx(s, Test(_)) ==
    \* the indices of s, ascending, whose element satisfies Test
    LET RECURSIVE Go(_)
        Go(i) == IF i > Len(s) THEN <<>>
                 ELSE IF Test(s[i]) THEN <<i>> \o Go(i + 1) ELSE Go(i + 1)
    IN Go(1)

\* All sequences over S of length at most n.
SeqsUpTo(S, n) == UNION {[1..k -> S] : k \in 0..n}

----------------------------------------------------------------------------
(* scrape_opentable_menus.py and scrape_doordash_menus.py: main            *)

\* Number of cities of TARGET_COUNTS the model iterates over.
NumCities == 2
\* Largest number of restaurants one scrape call returns.
MaxBatch == 2
\* Number of menu items each restaurant of one scrape batch carries.
MenuChoices == {0, 1}

Cities == 1..NumCities

\* The flat restaurant record built from scraped item i of city c.
RestaurantRecord(c, i) == [restaurant_id |-> <<c, i>>, city |-> c]
\* The flat menu record built from menu item j of scraped item i of city c.
MenuRecord(c, i, j) == [restaurant_id |-> <<c, i>>, item |-> j]

\* The restaurants list returned for a batch of n scraped items.
BatchRestaurants(c, n) == [i \in 1..n |-> RestaurantRecord(c, i)]
\* The menu_items list: the items of every scraped restaurant, in order.
BatchMenuItems(c, n, k) ==
    [m \in 1..(n * k) |-> MenuRecord(c, ((m - 1) \div k) + 1, ((m - 1) % k) + 1)]

\* A progress file that does not exist.
NoProgressFile ==
    [exists |-> FALSE, completed_cities |-> {}, restaurants |-> <<>>,
     menu_items |-> <<>>]

\* A CSV/JSON output file that does not exist.
NoFile == [exists |-> FALSE, rows |-> <<>>]

\* load_progress: the parsed file, or the empty default when it is absent.
\* completed_cities is stored as a JSON list of [city, state] lists and read
\* back with set(tuple(c) ...): the list order is not observable.
LoadProgress(file) ==
    IF file.exists
    THEN [completed_cities |-> file.completed_cities,
          restaurants |-> file.restaurants,
          menu_items |-> file.menu_items]
    ELSE [completed_cities |-> {}, restaurants |-> <<>>, menu_items |-> <<>>]

\* save_progress: the whole progress dict replaces the file.
SaveProgress(completed, rs, ms) ==
    [exists |-> TRUE, completed_cities |-> completed, restaurants |-> rs,
     menu_items |-> ms]

ExtendDropsOld(old, new) == new
\* list.extend
Extend(old, new) == old \o new

AlreadyCompletedNever(c, completed) == FALSE
\* `if (city, state) in completed_cities: continue`
AlreadyCompleted(c, completed) == c \in completed

\* main up to the loop: load the checkpoint.
StartRun ==
    /\ UNCHANGED notScrape
    /\ pc \in {"idle", "done"}
    /\ LET p == LoadProgress(progressFile) IN
        /\ completed_cities' = p.completed_cities
        /\ all_restaurants' = p.restaurants
        /\ all_menu_items' = p.menu_items
        /\ loaded' = [exists |-> progressFile.exists,
                      completed_cities |-> p.completed_cities,
                      restaurants |-> p.restaurants,
                      menu_items |-> p.menu_items]
    /\ pc' = "loop"
    /\ idx' = 1
    /\ calls' = {}
    /\ wrote' = {}
    /\ UNCHANGED <<script, progressFile, outRestaurants, outMenus>>

\* One iteration of scrape_opentable_menus.main's loop, up to save_progress.
OTCity ==
    /\ UNCHANGED notScrape
    /\ script = "opentable"
    /\ pc = "loop"
    /\ idx <= NumCities
    /\ LET c == idx IN
       IF AlreadyCompleted(c, completed_cities)
       THEN /\ idx' = idx + 1
            /\ UNCHANGED <<pc, completed_cities, all_restaurants,
                           all_menu_items, calls, wrote, progressFile>>
       ELSE \E urlsFound \in BOOLEAN, n \in 0..MaxBatch, k \in MenuChoices :
            IF ~urlsFound
            THEN \* search_opentable_urls returned []: skip the city
                 /\ calls' = calls \cup {<<"search", c>>}
                 /\ idx' = idx + 1
                 /\ UNCHANGED <<pc, completed_cities, all_restaurants,
                                all_menu_items, wrote, progressFile>>
            ELSE IF n = 0
            THEN \* scrape_restaurant_menus returned [], []
                 /\ calls' = calls \cup {<<"search", c>>, <<"scrape", c>>}
                 /\ idx' = idx + 1
                 /\ UNCHANGED <<pc, completed_cities, all_restaurants,
                                all_menu_items, wrote, progressFile>>
            ELSE /\ calls' = calls \cup {<<"search", c>>, <<"scrape", c>>}
                 /\ all_restaurants' =
                        Extend(all_restaurants, BatchRestaurants(c, n))
                 /\ all_menu_items' =
                        Extend(all_menu_items, BatchMenuItems(c, n, k))
                 /\ completed_cities' = completed_cities \cup {c}
                 /\ progressFile' = SaveProgress(completed_cities',
                                        all_restaurants', all_menu_items')
                 /\ wrote' = wrote \cup {"progress"}
                 /\ pc' = "outputs"
                 /\ UNCHANGED idx
    /\ UNCHANGED <<script, outRestaurants, outMenus, loaded>>

\* One iteration of scrape_doordash_menus.main's loop, up to save_progress.
DDCity ==
    /\ UNCHANGED notScrape
    /\ script = "doordash"
    /\ pc = "loop"
    /\ idx <= NumCities
    /\ LET c == idx IN
       IF AlreadyCompleted(c, completed_cities)
       THEN /\ idx' = idx + 1
            /\ UNCHANGED <<pc, completed_cities, all_restaurants,
                           all_menu_items, calls, wrote, progressFile>>
       ELSE \E n \in 0..MaxBatch, k \in MenuChoices :
            /\ calls' = calls \cup {<<"scrape", c>>}
            /\ all_restaurants' =
                   Extend(all_restaurants, BatchRestaurants(c, n))
            /\ all_menu_items' =
                   Extend(all_menu_items, BatchMenuItems(c, n, k))
            /\ completed_cities' = completed_cities \cup {c}
            /\ progressFile' = SaveProgress(completed_cities',
                                   all_restaurants', all_menu_items')
            /\ wrote' = wrote \cup {"progress"}
            /\ pc' = "outputs"
            /\ UNCHANGED idx
    /\ UNCHANGED <<script, outRestaurants, outMenus, loaded>>

\* The two output writes that end an iteration (to_csv, to_csv / json.dump).
WriteOutputs ==
    /\ UNCHANGED notScrape
    /\ pc = "outputs"
    /\ outRestaurants' = [exists |-> TRUE, rows |-> all_restaurants]
    /\ outMenus' = [exists |-> TRUE, rows |-> all_menu_items]
    /\ wrote' = wrote \cup {"outputs"}
    /\ idx' = idx + 1
    /\ pc' = "loop"
    /\ UNCHANGED <<script, progressFile, completed_cities, all_restaurants,
                   all_menu_items, loaded, calls>>

\* The loop is exhausted: the final summary is printed and main returns.
FinishRun ==
    /\ UNCHANGED notScrape
    /\ pc = "loop"
    /\ idx > NumCities
    /\ pc' = "done"
    /\ UNCHANGED <<script, progressFile, outRestaurants, outMenus, idx,
                   completed_cities, all_restaurants, all_menu_items, loaded,
                   calls, wrote>>

\* The process is killed between two steps: memory is lost, files remain.
Crash ==
    /\ UNCHANGED notScrape
    /\ pc \in {"loop", "outputs"}
    /\ pc' = "idle"
    /\ UNCHANGED <<script, progressFile, outRestaurants, outMenus, idx,
                   completed_cities, all_restaurants, all_menu_items, loaded,
                   calls, wrote>>

ScrapeInit ==
    /\ script \in {"opentable", "doordash"}
    /\ progressFile = NoProgressFile
    /\ outRestaurants = NoFile
    /\ outMenus = NoFile
    /\ pc = "idle"
    /\ idx = 1
    /\ completed_cities = {}
    /\ all_restaurants = <<>>
    /\ all_menu_items = <<>>
    /\ loaded = [exists |-> FALSE, completed_cities |-> {},
                 restaurants |-> <<>>, menu_items |-> <<>>]
    /\ calls = {}
    /\ wrote = {}

ScrapeIdle ==
    /\ script = "opentable"
    /\ progressFile = NoProgressFile
    /\ outRestaurants = NoFile
    /\ outMenus = NoFile
    /\ pc = "idle"
    /\ idx = 1
    /\ completed_cities = {}
    /\ all_restaurants = <<>>
    /\ all_menu_items = <<>>
    /\ loaded = [exists |-> FALSE, completed_cities |-> {},
                 restaurants |-> <<>>, menu_items |-> <<>>]
    /\ calls = {}
    /\ wrote = {}

----------------------------------------------------------------------------
(* scrape_menus.py: main                                                   *)

\* Largest number of rows of restaurant_sample_500.csv.
MaxRows == 3
\* `if len(results) % 10 == 0`: the period of the intermediate save.
SavePeriod == 10
\* The restaurant ids that occur in the input CSV.
YelpIds == {"r1", "r2"}
\* What the two external steps of one restaurant can come to.
Outcomes == {"NO_YELP_URL", "SCRAPE_FAILED", "NO_MENU", "OK"}

NoYelpProgressFile == [exists |-> FALSE, processed |-> {}, results |-> <<>>]

\* load_progress: the parsed file or {"processed": [], "results": []}.
\* "processed" is written as list(set) and read back with set(...).
YelpLoadProgress(file) ==
    IF file.exists
    THEN [processed |-> file.processed, results |-> file.results]
    ELSE [processed |-> {}, results |-> <<>>]

\* save_progress: the progress dict, whose "results" is the results list
\* itself (the same object), replaces the file.
YelpSaveProgress(processed, rs) ==
    [exists |-> TRUE, processed |-> processed, results |-> rs]

\* save_errors: errors.csv is opened with 'w' and receives the list.
SaveErrors(errs) == [exists |-> TRUE, rows |-> errs]

AlreadyProcessedNever(r, processed) == FALSE
\* `if restaurant_id in processed_ids: continue`
AlreadyProcessed(r, processed) == r \in processed

\* main up to the loop: read the CSV, load the checkpoint, errors = [].
YelpStart ==
    /\ UNCHANGED notYelp
    /\ ypc \in {"idle", "done"}
    /\ LET p == YelpLoadProgress(yProgressFile) IN
        /\ processed_ids' = p.processed
        /\ results' = p.results
    /\ errors' = <<>>
    /\ yidx' = 1
    /\ ypc' = "loop"
    /\ lastCall' = "none"
    /\ UNCHANGED <<df, yProgressFile, errorsCsv, outputJson>>

\* One iteration of the loop over the rows of the input CSV.
YelpRow ==
    /\ UNCHANGED notYelp
    /\ ypc = "loop"
    /\ yidx <= Len(df)
    /\ yidx' = yidx + 1
    /\ LET r == df[yidx] IN
       IF AlreadyProcessed(r, processed_ids)
       THEN /\ lastCall' = "none"
            /\ UNCHANGED <<yProgressFile, errorsCsv, outputJson,
                           processed_ids, results, errors>>
       ELSE \E outcome \in Outcomes :
            LET stored == outcome \in {"NO_MENU", "OK"} IN
            /\ lastCall' = r
            /\ errors' = IF outcome = "OK" THEN errors
                         ELSE Append(errors, [restaurant_id |-> r,
                                              error_type |-> outcome])
            /\ results' = IF stored
                          THEN Append(results, [restaurant_id |-> r,
                                                has_menu |-> outcome = "OK"])
                          ELSE results
            /\ processed_ids' = processed_ids \cup {r}
            /\ yProgressFile' = YelpSaveProgress(processed_ids', results')
            /\ errorsCsv' = SaveErrors(errors')
            /\ outputJson' = IF stored /\ Len(results') % SavePeriod = 0
                             THEN [exists |-> TRUE, rows |-> results']
                             ELSE outputJson
    /\ UNCHANGED <<df, ypc>>

\* After the loop: the final save of final_menus.json and errors.csv.
YelpFinish ==
    /\ UNCHANGED notYelp
    /\ ypc = "loop"
    /\ yidx > Len(df)
    /\ outputJson' = [exists |-> TRUE, rows |-> results]
    /\ errorsCsv' = SaveErrors(errors)
    /\ ypc' = "done"
    /\ lastCall' = "none"
    /\ UNCHANGED <<df, yProgressFile, yidx, processed_ids, results, errors>>

\* The process is killed between two iterations.
YelpCrash ==
    /\ UNCHANGED notYelp
    /\ ypc = "loop"
    /\ ypc' = "idle"
    /\ lastCall' = "none"
    /\ UNCHANGED <<df, yProgressFile, errorsCsv, outputJson, yidx,
                   processed_ids, results, errors>>

YelpInit ==
    /\ df \in SeqsUpTo(YelpIds, MaxRows) \ {<<>>}
    /\ yProgressFile = NoYelpProgressFile
    /\ errorsCsv = NoFile
    /\ outputJson = NoFile
    /\ ypc = "idle"
    /\ yidx = 1
    /\ processed_ids = {}
    /\ results = <<>>
    /\ errors = <<>>
    /\ lastCall = "none"

YelpIdle ==
    /\ df = <<>>
    /\ yProgressFile = NoYelpProgressFile
    /\ errorsCsv = NoFile
    /\ outputJson = NoFile
    /\ ypc = "idle"
    /\ yidx = 1
    /\ processed_ids = {}
    /\ results = <<>>
    /\ errors = <<>>
    /\ lastCall = "none"

----------------------------------------------------------------------------
(* dashboard/data_processor.py: process_data                               *)

\* Largest number of rows of restaurants_opentable.csv.
MaxRestaurants == 2
\* Largest number of rows of menu_items_opentable.csv.
MaxMenuRows == 2
\* `foie_sorted.head(10)`
SampleSize == 10
\* `str(item.get('description', ''))[:200]`
DescriptionLimit == 200

\* A missing CSV cell, as pandas reads it (NaN); a price cell is <<>> (NaN)
\* or <<number>>.
NaN == "NaN"

UpperCase == "ABCDEFGHIJKLMNOPQRSTUVWXYZ"
LowerCase == "abcdefghijklmnopqrstuvwxyz"

\* str.lower(), one character
LowerChar(c) ==
    IF \E i \in 1..Len(UpperCase) : SubSeq(UpperCase, i, i) = c
    THEN LET i == CHOOSE i \in 1..Len(UpperCase) : SubSeq(UpperCase, i, i) = c
         IN SubSeq(LowerCase, i, i)
    ELSE c
\* str.lower()
RECURSIVE Lower(_)
Lower(s) ==
    IF Len(s) = 0 THEN ""
    ELSE LowerChar(SubSeq(s, 1, 1)) \o Lower(SubSeq(s, 2, Len(s)))
\* `kw in s`
Contains(s, kw) ==
    \E i \in 0..(Len(s) - Len(kw)) : SubSeq(s, i + 1, i + Len(kw)) = kw
\* s[:n]
Truncate(s, n) == SubSeq(s, 1, Min(n, Len(s)))

\* The rows of s that satisfy Test, in order (boolean-mask selection).
Filter(s, Test(_)) ==
    LET ix == SelectSeqIdx(s, Test) IN [i \in DOMAIN ix |-> s[ix[i]]]

\* round(n / d * 100, 1) in tenths of a percent (ties to even).
Pct(n, d) ==
    LET q == (n * 1000) \div d
        r == (n * 1000) % d
    IN IF 2 * r > d THEN q + 1
       ELSE IF 2 * r < d THEN q
       ELSE q + (q % 2)

STATE_NAMES == <<
    <<"FL", "Florida">>, <<"PA", "Pennsylvania">>, <<"OH", "Ohio">>,
    <<"NC", "North Carolina">>, <<"NJ", "New Jersey">>,
    <<"WA", "Washington">>, <<"MA", "Massachusetts">>, <<"MD", "Maryland">>,
    <<"OR", "Oregon">>, <<"CO", "Colorado">>,
    <<"DC", "District of Columbia">> >>

\* <<city, lat, lng>>, in the order of the dict
CITY_COORDS == <<
    <<"Miami", "25.7617", "-80.1918">>,
    <<"Orlando", "28.5383", "-81.3792">>,
    <<"Tampa", "27.9506", "-82.4572">>,
    <<"Philadelphia", "39.9526", "-75.1652">>,
    <<"Pittsburgh", "40.4406", "-79.9959">>,
    <<"Columbus", "39.9612", "-82.9988">>,
    <<"Cleveland", "41.4993", "-81.6944">>,
    <<"Cincinnati", "39.1031", "-84.5120">>,
    <<"Charlotte", "35.2271", "-80.8431">>,
    <<"Raleigh", "35.7796", "-78.6382">>,
    <<"Asheville", "35.5951", "-82.5515">>,
    <<"Jersey City", "40.7178", "-74.0431">>,
    <<"Newark", "40.7357", "-74.1724">>,
    <<"Princeton", "40.3573", "-74.6672">>,
    <<"Seattle", "47.6062", "-122.3321">>,
    <<"Tacoma", "47.2529", "-122.4443">>,
    <<"Spokane", "47.6588", "-117.4260">>,
    <<"Boston", "42.3601", "-71.0589">>,
    <<"Cambridge", "42.3736", "-71.1097">>,
    <<"Worcester", "42.2626", "-71.8023">>,
    <<"Baltimore", "39.2904", "-76.6122">>,
    <<"Bethesda", "38.9847", "-77.0947">>,
    <<"Annapolis", "38.9784", "-76.4922">>,
    <<"Portland", "45.5152", "-122.6784">>,
    <<"Eugene", "44.0521", "-123.0868">>,
    <<"Bend", "44.0582", "-121.3153">>,
    <<"Denver", "39.7392", "-104.9903">>,
    <<"Boulder", "40.0150", "-105.2705">>,
    <<"Colorado Springs", "38.8339", "-104.8214">>,
    <<"Washington", "38.9072", "-77.0369">> >>

tier_order == <<"$30 and under", "$31 to $50", "$50 and over">>

european_keywords == {"french", "italian", "european",
                      "mediterranean", "spanish", "greek"}

\* The rows the input tables are drawn from.
RestaurantRows == {
    [restaurant_id |-> 1, name |-> "Chez Panache", city |-> "Miami",
     state |-> "FL", cuisine_type |-> "French, European",
     price_band |-> "$50 and over"],
    [restaurant_id |-> 2, name |-> "Grill House", city |-> "miami",
     state |-> "FL", cuisine_type |-> "Steakhouse",
     price_band |-> "$31 to $50"],
    [restaurant_id |-> 3, name |-> "Trattoria", city |-> "Boston",
     state |-> "MA", cuisine_type |-> "Italian",
     price_band |-> "$50 and over"],
    [restaurant_id |-> 1, name |-> "Chez Panache", city |-> "Newark",
     state |-> "NJ", cuisine_type |-> NaN,
     price_band |-> "$30 and under"] }

MenuRows == {
    [restaurant_id |-> 1, title |-> "Seared Foie Gras",
     description |-> "Hudson Valley foie", section |-> "Entrees",
     price |-> <<32>>],
    [restaurant_id |-> 1, title |-> "seared foie gras",
     description |-> NaN, section |-> NaN, price |-> <<>>],
    [restaurant_id |-> 2, title |-> "House Wine",
     description |-> NaN, section |-> "Drinks", price |-> <<12>>],
    [restaurant_id |-> 4, title |-> "Foie Gras Terrine",
     description |-> NaN, section |-> "Chef Specials", price |-> <<18>>] }

\* `menu_df['title'].str.lower().str.contains('foie', na=False)`
IsFoie(item) == item.title # NaN /\ Contains(Lower(item.title), "foie")

\* `set(df['restaurant_id'].unique())`
UniqueIds(rows) == {rows[i].restaurant_id : i \in DOMAIN rows}

IgnoreRestaurants(ids, foie_ids) == foie_ids
\* `<ids of the group>.intersection(foie_restaurant_ids)`
WithFoie(ids, foie_ids) == ids \cap foie_ids

\* stable `sorted(..., key=lambda x: x['restaurant_count'], reverse=True)`
RECURSIVE SortByCountDesc(_)
SortByCountDesc(s) ==
    IF s = <<>> THEN <<>>
    ELSE LET top == CHOOSE i \in DOMAIN s :
                        /\ \A j \in DOMAIN s :
                               s[j].restaurant_count <= s[i].restaurant_count
                        /\ \A j \in 1..(i - 1) :
                               s[j].restaurant_count < s[i].restaurant_count
         IN <<s[top]>> \o SortByCountDesc(SubSeq(s, 1, top - 1)
                                          \o SubSeq(s, top + 1, Len(s)))

\* drop_duplicates(subset=['dedup_key']): the first row of each key stays.
DropDuplicates(s, Key(_)) ==
    LET ix == SelectSeqIdx([i \in DOMAIN s |-> i],
                  LAMBDA i : \A j \in 1..(i - 1) : Key(s[j]) # Key(s[i]))
    IN [i \in DOMAIN ix |-> s[ix[i]]]

\* The concatenation of a sequence of sequences.
RECURSIVE Flatten(_)
Flatten(ss) == IF ss = <<>> THEN <<>> ELSE ss[1] \o Flatten(Tail(ss))

\* `foie_items.merge(restaurants_df[[...]], on='restaurant_id', how='left')`
MergeLeft(items, rdf) ==
    Flatten([i \in DOMAIN items |->
        LET matches == Filter(rdf,
                LAMBDA r : r.restaurant_id = items[i].restaurant_id)
        IN IF matches = <<>>
           THEN <<[item |-> items[i], name |-> NaN, city |-> NaN,
                   state |-> NaN]>>
           ELSE [k \in DOMAIN matches |->
                    [item |-> items[i], name |-> matches[k].name,
                     city |-> matches[k].city, state |-> matches[k].state]]])

HasDescription(row) ==
    row.item.description # NaN /\ row.item.description # ""

\* The "SAMPLE FOIE GRAS MENU ITEMS" block.
SampleFoieItems(foie_items, rdf) ==
    LET foie_with_details == MergeLeft(foie_items, rdf)
        foie_with_prices ==
            DropDuplicates(
                Filter(foie_with_details, LAMBDA row : row.item.price # <<>>),
                LAMBDA row : <<Lower(row.item.title), row.item.restaurant_id>>)
        foie_sorted ==
            Filter(foie_with_prices, HasDescription)
            \o Filter(foie_with_prices, LAMBDA row : ~HasDescription(row))
        head == SubSeq(foie_sorted, 1, Min(SampleSize, Len(foie_sorted)))
    IN [i \in DOMAIN head |->
           [title |-> head[i].item.title,
            description |->
                IF head[i].item.description # NaN
                THEN Truncate(head[i].item.description, DescriptionLimit)
                ELSE "",
            price |-> head[i].item.price[1],
            restaurant |-> head[i].name,
            city |-> head[i].city,
            state |-> head[i].state,
            section |-> head[i].item.section]]

IsEuropean(r) ==
    /\ r.cuisine_type # NaN
    /\ \E kw \in european_keywords : Contains(Lower(r.cuisine_type), kw)

\* The "STATE AGGREGATES" block with the foie_rate added at the end.
StateData(rdf, foie_ids) ==
    SortByCountDesc([s \in DOMAIN STATE_NAMES |->
        LET state_restaurants ==
                Filter(rdf, LAMBDA r : r.state = STATE_NAMES[s][1])
            state_foie_rest == WithFoie(UniqueIds(state_restaurants), foie_ids)
        IN [state |-> STATE_NAMES[s][1],
            state_name |-> STATE_NAMES[s][2],
            restaurant_count |-> Len(state_restaurants),
            restaurants_with_foie |-> Cardinality(state_foie_rest),
            foie_rate |->
                IF Len(state_restaurants) > 0
                THEN Pct(Cardinality(state_foie_rest), Len(state_restaurants))
                ELSE 0]])

\* The "CITY MAP DATA" block.
CityData(rdf, foie_items, foie_ids) ==
    LET Entry(c) ==
            LET city_restaurants ==
                    Filter(rdf, LAMBDA r : r.city # NaN
                                /\ Lower(r.city) = Lower(CITY_COORDS[c][1]))
                city_rest_ids == UniqueIds(city_restaurants)
                city_foie_items ==
                    Filter(foie_items,
                           LAMBDA it : it.restaurant_id \in city_rest_ids)
            IN [city |-> CITY_COORDS[c][1],
                lat |-> CITY_COORDS[c][2],
                lng |-> CITY_COORDS[c][3],
                restaurant_count |-> Len(city_restaurants),
                foie_gras_items |-> Len(city_foie_items),
                restaurants_with_foie |->
                    Cardinality(WithFoie(city_rest_ids, foie_ids))]
        all == [c \in DOMAIN CITY_COORDS |-> Entry(c)]
    IN Filter(all, LAMBDA e : e.restaurant_count > 0)

\* The "PRICE TIER FOIE GRAS PREVALENCE" block (a dict keyed by band).
PriceTierFoie(rdf, foie_ids) ==
    LET Entry(b) ==
            LET band_ids ==
                    UniqueIds(Filter(rdf,
                        LAMBDA r : r.price_band = tier_order[b]))
                band_foie == WithFoie(band_ids, foie_ids)
            IN [band |-> tier_order[b],
                total |-> Cardinality(band_ids),
                with_foie |-> Cardinality(band_foie),
                rate |-> IF Cardinality(band_ids) > 0
                         THEN Pct(Cardinality(band_foie), Cardinality(band_ids))
                         ELSE 0]
        all == [b \in DOMAIN tier_order |-> Entry(b)]
    IN Filter(all, LAMBDA e : e.total > 0)

\* The "EUROPEAN RESTAURANT INSIGHT" block.
EuropeanInsight(rdf, foie_ids) ==
    LET foie_restaurants_df ==
            Filter(rdf, LAMBDA r : r.restaurant_id \in foie_ids)
        european_foie_count == Len(Filter(foie_restaurants_df, IsEuropean))
        european_total_count == Len(Filter(rdf, IsEuropean))
    IN [foie_count |-> european_foie_count,
        foie_pct |-> IF Cardinality(foie_ids) > 0
                     THEN Pct(european_foie_count, Cardinality(foie_ids))
                     ELSE 0,
        total_count |-> european_total_count,
        total_pct |-> IF Len(rdf) > 0
                      THEN Pct(european_total_count, Len(rdf))
                      ELSE 0]

\* section_categories, in the order of the dictionary; the category
\* "Other/Uncategorized" has no keyword and is the fall-back.
section_categories == <<
    [category |-> "Appetizers/Starters",
     keywords |-> {"appetizer", "starter", "small plate", "first course",
                   "hors d'oeuvre", "antipasti", "antipasto", "entree",
                   "entrée"}],
    [category |-> "Main Courses",
     keywords |-> {"main", "entrees", "entrées", "second course",
                   "plat principal", "secondi"}],
    [category |-> "Specials/Features",
     keywords |-> {"special", "feature", "chef", "tasting", "prix fixe",
                   "omakase"}] >>

\* str.strip(), for spaces
RECURSIVE Strip(_)
Strip(s) ==
    IF Len(s) > 0 /\ SubSeq(s, 1, 1) = " " THEN Strip(SubSeq(s, 2, Len(s)))
    ELSE IF Len(s) > 0 /\ SubSeq(s, Len(s), Len(s)) = " "
    THEN Strip(SubSeq(s, 1, Len(s) - 1))
    ELSE s

\* str(value).lower(): a missing value reads "nan".
StrLower(value) == IF value = NaN THEN "nan" ELSE Lower(value)

\* The positions of section_categories one of whose keywords is in the
\* section text.
MatchingCategories(section) ==
    {c \in DOMAIN section_categories :
        \E kw \in section_categories[c].keywords : Contains(section, kw)}

EveryMatchingCategory(item) ==
    LET m == MatchingCategories(Strip(StrLower(item.section)))
    IN IF m = {} THEN {"Other/Uncategorized"}
       ELSE {section_categories[c].category : c \in m}
\* The categories an item is counted under: the first category with a
\* matching keyword, "Other/Uncategorized" when there is none.
CategoriesOf(item) ==
    LET m == MatchingCategories(Strip(StrLower(item.section)))
    IN IF m = {} THEN {"Other/Uncategorized"}
       ELSE {section_categories[CHOOSE c \in m : \A d \in m : c <= d].category}

\* foie_by_section: the count of every category that received an item.
FoieBySection(foie_items) ==
    LET counted == UNION {CategoriesOf(foie_items[i]) : i \in DOMAIN foie_items}
    IN [cat \in counted |->
           Cardinality({i \in DOMAIN foie_items :
                           cat \in CategoriesOf(foie_items[i])})]

\* `'hudson' in title_desc or 'hudson valley' in title_desc`
MentionsHudson(item) ==
    LET title_desc == StrLower(item.title) \o " " \o StrLower(item.description)
    IN Contains(title_desc, "hudson") \/ Contains(title_desc, "hudson valley")

\* origin_data
OriginData(foie_items) ==
    LET hudson == {i \in DOMAIN foie_items : MentionsHudson(foie_items[i])}
    IN [origin \in {"Hudson Valley", "No origin specified"} |->
           IF origin = "Hudson Valley" THEN Cardinality(hudson)
           ELSE Len(foie_items) - Cardinality(hudson)]

\* process_data on the two tables.  The price statistics, the value counts
\* of cuisines and price bands and the multiple-offering figures are not
\* part of this value.
ProcessData(rdf, mdf) ==
    LET foie_items == Filter(mdf, IsFoie)
        foie_restaurant_ids == UniqueIds(foie_items)
    IN [stats |-> [total_restaurants |-> Len(rdf),
                   total_menu_items |-> Len(mdf),
                   total_foie_gras_items |-> Len(foie_items),
                   restaurants_with_foie |-> Cardinality(foie_restaurant_ids)],
        states |-> StateData(rdf, foie_restaurant_ids),
        cities |-> CityData(rdf, foie_items, foie_restaurant_ids),
        foie_sections |-> FoieBySection(foie_items),
        price_tier_foie |-> PriceTierFoie(rdf, foie_restaurant_ids),
        origin_data |-> OriginData(foie_items),
        sample_foie_items |-> SampleFoieItems(foie_items, rdf),
        european_insight |-> EuropeanInsight(rdf, foie_restaurant_ids)]

\* process_data is run on the CSV files as they are; output is <<>> before.
RunProcessData ==
    /\ UNCHANGED notDash
    /\ output = <<>>
    /\ output' = <<ProcessData(restaurants_df, menu_df)>>
    /\ UNCHANGED <<restaurants_df, menu_df>>

DashInit ==
    /\ restaurants_df \in SeqsUpTo(RestaurantRows, MaxRestaurants)
    /\ menu_df \in SeqsUpTo(MenuRows, MaxMenuRows)
    /\ output = <<>>

DashIdle ==
    /\ restaurants_df = <<>>
    /\ menu_df = <<>>
    /\ output = <<>>

----------------------------------------------------------------------------
(* dashboard/app.py: get_data and the request handlers                     *)

\* Number of different contents data.json and the CSV files may take.
MaxVersions == 2

Versions == 1..MaxVersions

\* The routes of the application and the key of the data each one serves.
Endpoints == {
    [route |-> "/", key |-> "stats"],
    [route |-> "/api/stats", key |-> "stats"],
    [route |-> "/api/cities", key |-> "cities"],
    [route |-> "/api/states", key |-> "states"],
    [route |-> "/api/cuisines", key |-> "cuisines"],
    [route |-> "/api/price-bands", key |-> "price_bands"],
    [route |-> "/api/foie-sections", key |-> "foie_sections"],
    [route |-> "/api/price-tier-foie", key |-> "price_tier_foie"],
    [route |-> "/api/foie-cuisines", key |-> "foie_cuisines"],
    [route |-> "/api/origin-data", key |-> "origin_data"],
    [route |-> "/api/price-comparison", key |-> "price_comparison"],
    [route |-> "/api/foie-price-dist", key |-> "foie_price_dist"],
    [route |-> "/api/sample-foie-items", key |-> "sample_foie_items"],
    [route |-> "/api/european-insight", key |-> "european_insight"] }

\* json.load of data.json holding content v.
JsonData(v) == [source |-> "data.json", version |-> v]
\* process_data() on CSV files holding content v.
CsvData(v) == [source |-> "csv", version |-> v]

\* data['<key>'] / data.get('<key>', ...): the part of the data under a key.
Slice(data, key) == [of |-> data, key |-> key]

GetDataAlwaysLoads(dd, json, csv) ==
    IF json # <<>> THEN <<JsonData(json[1])>>
    ELSE IF csv # <<>> THEN <<CsvData(csv[1])>>
    ELSE <<>>
\* get_data: the value of dashboard_data after the call; <<>> (None) when
\* neither data.json nor the CSV files exist and process_data raises.
GetData(dd, json, csv) ==
    IF dd # <<>> THEN dd
    ELSE IF json # <<>> THEN <<JsonData(json[1])>>
    ELSE IF csv # <<>> THEN <<CsvData(csv[1])>>
    ELSE <<>>

\* One request, handled from get_data to the response.
Request ==
    /\ UNCHANGED notApp
    /\ \E e \in Endpoints :
        /\ dashboard_data' = GetData(dashboard_data, data_json, csv_files)
        /\ response' =
              IF dashboard_data' = <<>>
              THEN <<[route |-> e.route, status |-> "500", body |-> <<>>]>>
              ELSE <<[route |-> e.route, status |-> "200",
                      body |-> <<Slice(dashboard_data'[1], e.key)>>]>>
    /\ UNCHANGED <<data_json, csv_files>>

\* data.json is written with new content while the application runs.
WriteDataJson ==
    /\ UNCHANGED notApp
    /\ \E v \in Versions : data_json' = <<v>>
    /\ UNCHANGED <<dashboard_data, csv_files, response>>

\* data.json is removed while the application runs.
RemoveDataJson ==
    /\ UNCHANGED notApp
    /\ data_json # <<>>
    /\ data_json' = <<>>
    /\ UNCHANGED <<dashboard_data, csv_files, response>>

\* The scripts rewrite the CSV files while the application runs.
WriteCsvFiles ==
    /\ UNCHANGED notApp
    /\ \E v \in Versions : csv_files' = <<v>>
    /\ UNCHANGED <<dashboard_data, data_json, response>>

\* The module is imported: `dashboard_data = None`, no request served yet.
AppInit ==
    /\ dashboard_data = <<>>
    /\ data_json \in {<<>>} \cup {<<v>> : v \in Versions}
    /\ csv_files \in {<<>>} \cup {<<v>> : v \in Versions}
    /\ response = <<>>

AppIdle ==
    /\ dashboard_data = <<>>
    /\ data_json = <<>>
    /\ csv_files = <<>>
    /\ response = <<>>

----------------------------------------------------------------------------
(* generate_restaurant_sample.py: generate_dataset                         *)

\* Longest list fetch_restaurants_for_city returns in the model.
MaxFetched == 3

\* The first two cities of TARGET_COUNTS, in order, their targets scaled
\* down (43 and 32 in the source) so that fetched lists can be both shorter
\* and longer than the target.
TARGET_COUNTS == <<[city |-> "Miami, FL", target |-> 2],
                   [city |-> "Orlando, FL", target |-> 1]>>

\* sum(TARGET_COUNTS.values())
TotalTarget == SumSeq([i \in DOMAIN TARGET_COUNTS |-> TARGET_COUNTS[i].target])

CHAIN_KEYWORDS == {
    "mcdonald", "burger king", "wendy", "taco bell", "subway",
    "chick-fil-a", "chipotle", "panda express", "kfc", "domino",
    "pizza hut", "papa john", "dunkin", "starbucks", "ihop",
    "denny", "applebee", "chili", "olive garden", "red lobster",
    "outback", "buffalo wild wings", "five guys", "in-n-out",
    "shake shack", "panera", "wingstop", "popeyes", "sonic",
    "arby", "jack in the box", "carl's jr", "hardee", "whataburger" }

\* displayName texts the Places API answers with in the model.
PlaceNames == {"Le Bernardin", "Chipotle Mexican Grill"}

\* main calls generate_dataset(exclude_chains=True, ...)
exclude_chains == TRUE

is_chain_restaurant(name) ==
    \E chain \in CHAIN_KEYWORDS : Contains(Lower(name), chain)

\* The lists fetch_restaurants_for_city may return for a city: any number
\* of places up to MaxFetched, none when the API fails or finds nothing.
FetchedLists(city) ==
    {[k \in 1..n |-> [restaurant_id |-> <<city, k>>, name |-> names[k],
                      city |-> city]] :
        n \in 0..MaxFetched, names \in [1..MaxFetched -> PlaceNames]}

SampleWithRepeats(population, k) ==
    {[i \in 1..k |-> population[f[i]]] : f \in [1..k -> DOMAIN population]}
\* random.sample(population, k): k elements at distinct positions, any order.
Sample(population, k) ==
    {[i \in 1..k |-> population[f[i]]] :
        f \in {g \in [1..k -> DOMAIN population] :
                  \A a, b \in 1..k : a # b => g[a] # g[b]}}

RandomSampleTakesAll(rs, target_count, excl) == {rs}
RandomSampleKeepsChains(rs, target_count, excl) ==
    IF Len(rs) <= target_count THEN {rs} ELSE Sample(rs, target_count)
\* random_sample_restaurants: the lists it may return.
random_sample_restaurants(rs, target_count, excl) ==
    LET non_chain == Filter(rs, LAMBDA r : ~is_chain_restaurant(r.name))
        filtered == IF excl /\ Len(non_chain) >= target_count
                    THEN non_chain ELSE rs
    IN IF Len(filtered) <= target_count
       THEN {filtered}
       ELSE Sample(filtered, target_count)

\* Loop body, first half: fetch the restaurants of the city.
GenFetch ==
    /\ UNCHANGED notGen
    /\ gpc = "fetch"
    /\ restaurants' \in FetchedLists(TARGET_COUNTS[gidx].city)
    /\ gpc' = "sample"
    /\ UNCHANGED <<gidx, all_sampled, results_summary>>

\* Loop body, second half: sample to the target, extend all_sampled and
\* record the city in results_summary; after the last city the data frame
\* is built from all_sampled, one row per element.
GenSample ==
    /\ UNCHANGED notGen
    /\ gpc = "sample"
    /\ LET target == TARGET_COUNTS[gidx].target IN
       \E sampled \in random_sample_restaurants(restaurants, target,
                                                exclude_chains) :
          /\ all_sampled' = all_sampled \o sampled
          /\ results_summary' = Append(results_summary,
                 [city |-> TARGET_COUNTS[gidx].city, target |-> target,
                  actual |-> Len(sampled)])
    /\ gidx' = gidx + 1
    /\ gpc' = IF gidx = Len(TARGET_COUNTS) THEN "done" ELSE "fetch"
    /\ UNCHANGED restaurants

\* generate_dataset is entered: empty all_sampled and results_summary.
GenInit ==
    /\ gpc = "fetch"
    /\ gidx = 1
    /\ restaurants = <<>>
    /\ all_sampled = <<>>
    /\ results_summary = <<>>

GenIdle == GenInit

----------------------------------------------------------------------------
(* generate_restaurant_sample.py: fetch_restaurants_for_city               *)

\* Largest max_pages the function is called with.
MaxPages == 3
\* Most places on one page of results.
MaxPlaces == 2

EXCLUDED_TYPES == {
    "delivery_service", "food_delivery", "meal_delivery",
    "grocery_store", "supermarket", "convenience_store",
    "gas_station", "catering_service" }

\* primaryType values the Places API answers with in the model.
PrimaryTypes == {"restaurant", "meal_delivery"}

\* data.get("places", []) of the page requested as number p.
Pages(p) ==
    {[k \in 1..n |-> [id |-> <<p, k>>, primaryType |-> types[k]]] :
        n \in 0..MaxPlaces, types \in [1..MaxPlaces -> PrimaryTypes]}

\* data.get("nextPageToken"): absent or a token.
Tokens == {<<>>, <<"token">>}

KeepsEveryType(primary_type) == FALSE
\* `primary_type in EXCLUDED_TYPES`
IsExcluded(primary_type) == primary_type \in EXCLUDED_TYPES

\* The restaurant dictionaries built from the places of a page.
PageRestaurants(ps) ==
    LET kept == Filter(ps, LAMBDA place : ~IsExcluded(place.primaryType))
    IN [k \in DOMAIN kept |-> [restaurant_id |-> kept[k].id,
                               primary_type |-> kept[k].primaryType]]

\* One iteration of the while loop whose request fails: the
\* RequestException is caught and the loop left.
FetchPageError ==
    /\ UNCHANGED notFetch
    /\ fpc = "loop"
    /\ page_count < max_pages
    /\ requests' = requests + 1
    /\ fpc' = "returned"
    /\ stopped' = "error"
    /\ UNCHANGED <<max_pages, page_count, next_page_token, places,
                   f_all_restaurants>>

\* One iteration of the while loop whose request succeeds.
FetchPage ==
    /\ UNCHANGED notFetch
    /\ fpc = "loop"
    /\ page_count < max_pages
    /\ requests' = requests + 1
    /\ \E ps \in Pages(page_count + 1), token \in Tokens :
        /\ places' = ps
        /\ IF ps = <<>>
           THEN /\ fpc' = "returned"
                /\ stopped' = "empty"
                /\ UNCHANGED <<page_count, next_page_token,
                               f_all_restaurants>>
           ELSE /\ f_all_restaurants' =
                       f_all_restaurants \o PageRestaurants(ps)
                /\ next_page_token' = token
                /\ IF token = <<>>
                   THEN /\ fpc' = "returned"
                        /\ stopped' = "no_token"
                        /\ UNCHANGED page_count
                   ELSE /\ page_count' = page_count + 1
                        /\ UNCHANGED <<fpc, stopped>>
    /\ UNCHANGED max_pages

\* The while condition fails: max_pages pages were requested.
FetchLoopEnd ==
    /\ UNCHANGED notFetch
    /\ fpc = "loop"
    /\ page_count >= max_pages
    /\ fpc' = "returned"
    /\ stopped' = "max_pages"
    /\ UNCHANGED <<max_pages, page_count, next_page_token, places,
                   f_all_restaurants, requests>>

\* The function is entered with some max_pages.
FetchInit ==
    /\ fpc = "loop"
    /\ max_pages \in 0..MaxPages
    /\ page_count = 0
    /\ next_page_token = <<>>
    /\ places = <<>>
    /\ f_all_restaurants = <<>>
    /\ requests = 0
    /\ stopped = "none"

FetchIdle ==
    /\ fpc = "loop"
    /\ max_pages = 0
    /\ page_count = 0
    /\ next_page_token = <<>>
    /\ places = <<>>
    /\ f_all_restaurants = <<>>
    /\ requests = 0
    /\ stopped = "none"

----------------------------------------------------------------------------
(* scrape_opentable_menus.py: search_opentable_urls                        *)

\* Most organic results the search returns, all items together.
MaxResults == 3
\* Largest target_count the function is called with.
MaxTargetCount == 2

\* URLs the Google search answers with in the model.
ResultUrls == {
    "opentable.com/r/a",
    "opentable.com/r/a?corrid=1",
    "opentable.com/r/b",
    "opentable.com/s?next=/r/a",
    "yelp.com/biz/a" }

\* url.split("?")[0]
RECURSIVE SplitQuery(_)
SplitQuery(url) ==
    IF Len(url) = 0 THEN ""
    ELSE IF SubSeq(url, 1, 1) = "?" THEN ""
    ELSE SubSeq(url, 1, 1) \o SplitQuery(SubSeq(url, 2, Len(url)))

\* The loop over the organic results: the list `urls` it builds.
RECURSIVE CollectUrls(_, _, _)
CollectUrls(rs, acc, seen) ==
    IF rs = <<>> THEN acc
    ELSE LET url == Head(rs)
             clean_url == SplitQuery(url)
         IN IF /\ Contains(url, "/r/")
               /\ Contains(url, "opentable.com")
               /\ url \notin seen
               /\ clean_url \notin seen
            THEN CollectUrls(Tail(rs), Append(acc, clean_url),
                             seen \cup {clean_url})
            ELSE CollectUrls(Tail(rs), acc, seen)

\* urls[:target_count]
FirstN(s, n) == SubSeq(s, 1, Min(n, Len(s)))

\* The actor call succeeds: the URLs are collected and cut to target_count.
SearchReturns ==
    /\ UNCHANGED notSearch
    /\ spc = "call"
    /\ urls' = FirstN(CollectUrls(organic_results, <<>>, {}), s_target_count)
    /\ spc' = "returned"
    /\ UNCHANGED <<organic_results, s_target_count>>

\* The actor call or the dataset read raises: `except Exception` returns [].
SearchRaises ==
    /\ UNCHANGED notSearch
    /\ spc = "call"
    /\ urls' = <<>>
    /\ spc' = "raised"
    /\ UNCHANGED <<organic_results, s_target_count>>

\* The function is called; the search, if it succeeds, has these results.
SearchInit ==
    /\ spc = "call"
    /\ organic_results \in SeqsUpTo(ResultUrls, MaxResults)
    /\ s_target_count \in 0..MaxTargetCount
    /\ urls = <<>>

SearchIdle ==
    /\ spc = "call"
    /\ organic_results = <<>>
    /\ s_target_count = 0
    /\ urls = <<>>

----------------------------------------------------------------------------
(* scrape_doordash_menus.py: scrape_city                                   *)

\* Most items one search returns.
MaxItems == 2
\* Largest target_count scrape_city is called with.
MaxCityTarget == 2

search_terms == <<"restaurant", "american", "italian", "asian", "seafood",
                  "steakhouse">>

\* The least number of menu items a restaurant is kept with.
MinMenuItems == 3

\* Value of item['menu'] that is true but has no len(), such as a number.
Unsized == -1

\* Items a search answers with: storeId missing ("") or present, menu
\* empty (0), a list of 2 or 3 entries, or a value without a length.
SearchItems ==
    [storeId : {"", "s1", "s2"}, menu : {0, 2, MinMenuItems, Unsized}]

\* Cities scrape_city is called for.
Locations == {<<"Miami", "FL">>, <<"Boston", "MA">>}

KeepsAnyMenu(menu) == menu # 0
\* `menu and len(menu) >= 3`, for a menu that has a length.
HasMenu(menu) == menu # 0 /\ menu >= MinMenuItems

\* The loop over the items of one search, from the state (acc, seen): the
\* lists after it, and whether an item raised and ended the loop.
RECURSIVE ProcessItems(_, _, _, _, _, _)
ProcessItems(items, acc, seen, target, city, state) ==
    IF items = <<>> THEN [all |-> acc, seen |-> seen, raised |-> FALSE]
    ELSE LET item == Head(items) IN
         IF item.storeId # "" /\ item.storeId \notin seen
         THEN IF item.menu = Unsized
              THEN [all |-> acc, seen |-> seen, raised |-> TRUE]
              ELSE IF HasMenu(item.menu)
              THEN LET acc2 == Append(acc, [storeId |-> item.storeId,
                                           menu |-> item.menu,
                                           city |-> city, state |-> state])
                       seen2 == seen \cup {item.storeId}
                   IN IF Len(acc2) >= target
                      THEN [all |-> acc2, seen |-> seen2, raised |-> FALSE]
                      ELSE ProcessItems(Tail(items), acc2, seen2, target,
                                        city, state)
              ELSE ProcessItems(Tail(items), acc, seen, target, city, state)
         ELSE ProcessItems(Tail(items), acc, seen, target, city, state)

\* One search term whose actor call or dataset read raises: the exception
\* is printed and the loop continues with the next term.
CitySearchRaises ==
    /\ UNCHANGED notCity
    /\ dpc = "loop"
    /\ term_idx <= Len(search_terms)
    /\ Len(d_all_restaurants) < d_target_count
    /\ caught' = caught + 1
    /\ term_idx' = term_idx + 1
    /\ UNCHANGED <<dpc, d_city, d_state, d_target_count, d_all_restaurants,
                   seen_ids, returned>>

\* One search term whose search answers with items.
CitySearch ==
    /\ UNCHANGED notCity
    /\ dpc = "loop"
    /\ term_idx <= Len(search_terms)
    /\ Len(d_all_restaurants) < d_target_count
    /\ \E items \in SeqsUpTo(SearchItems, MaxItems) :
        LET r == ProcessItems(items, d_all_restaurants, seen_ids,
                              d_target_count, d_city, d_state)
        IN /\ d_all_restaurants' = r.all
           /\ seen_ids' = r.seen
           /\ caught' = IF r.raised THEN caught + 1 ELSE caught
    /\ term_idx' = term_idx + 1
    /\ UNCHANGED <<dpc, d_city, d_state, d_target_count, returned>>

\* The loop ends (target reached or no search term left) and the function
\* returns all_restaurants[:target_count].
CityReturn ==
    /\ UNCHANGED notCity
    /\ dpc = "loop"
    /\ \/ term_idx > Len(search_terms)
       \/ Len(d_all_restaurants) >= d_target_count
    /\ returned' = FirstN(d_all_restaurants, d_target_count)
    /\ dpc' = "returned"
    /\ UNCHANGED <<d_city, d_state, d_target_count, term_idx,
                   d_all_restaurants, seen_ids, caught>>

\* scrape_city is called for a city with some target_count.
CityInit ==
    /\ dpc = "loop"
    /\ \E loc \in Locations : d_city = loc[1] /\ d_state = loc[2]
    /\ d_target_count \in 0..MaxCityTarget
    /\ term_idx = 1
    /\ d_all_restaurants = <<>>
    /\ seen_ids = {}
    /\ caught = 0
    /\ returned = <<>>

CityIdle ==
    /\ dpc = "loop"
    /\ d_city = "Miami"
    /\ d_state = "FL"
    /\ d_target_count = 0
    /\ term_idx = 1
    /\ d_all_restaurants = <<>>
    /\ seen_ids = {}
    /\ caught = 0
    /\ returned = <<>>

----------------------------------------------------------------------------
(* add_more_restaurants.py                                                 *)

\* Most rows of restaurants_opentable.csv when the script starts.
MaxExisting == 1
\* Most organic results one search of the script returns.
MaxAddResults == 2

\* The first two cities of gaps, in order, their targets scaled down (10
\* and 3 in the source).
gaps == <<[city |-> "Miami", state |-> "FL", target |-> 2],
          [city |-> "Orlando", state |-> "FL", target |-> 1]>>

\* URLs the Google search answers with in the model.
AddResultUrls == {
    "opentable.com/r/a",
    "opentable.com/r/a?corrid=1",
    "opentable.com/r/b",
    "opentable.com/r/c",
    "yelp.com/biz/a" }

\* postalCode values of the restaurants in the model.
PostalCodes == {"02116", "33139"}

\* The columns the script writes for a restaurant and for a menu item.
RestaurantColumns ==
    <<"restaurant_id", "name", "city", "state", "cuisine_type", "price_band",
      "rating", "review_count", "address", "postal_code", "source_url",
      "has_menu", "date_accessed">>
MenuItemColumns ==
    <<"menu_item_id", "restaurant_id", "title", "description", "section",
      "menu_type", "price", "currency", "date_accessed">>

Digits == "0123456789"

\* The text is a non-empty run of decimal digits.
IsNumeric(s) ==
    /\ Len(s) > 0
    /\ \A i \in 1..Len(s) :
          \E d \in 1..Len(Digits) : SubSeq(s, i, i) = SubSeq(Digits, d, d)

\* str(int(s)): the decimal text without leading zeros.
RECURSIVE StripZeros(_)
StripZeros(s) ==
    IF Len(s) > 1 /\ SubSeq(s, 1, 1) = "0"
    THEN StripZeros(SubSeq(s, 2, Len(s)))
    ELSE s

\* The dtype pd.read_csv infers for a column of cell texts ("" is a
\* missing value).
InferDtype(cells) ==
    LET present == {c \in cells : c # ""} IN
    IF \A c \in present : IsNumeric(c)
    THEN IF present = cells /\ cells # {} THEN "int64" ELSE "float64"
    ELSE "object"

\* The text to_csv writes for a cell read under a dtype.
RoundTrip(cell, dtype) ==
    IF cell = "" THEN ""
    ELSE IF dtype = "int64" THEN StripZeros(cell)
    ELSE IF dtype = "float64" THEN StripZeros(cell) \o ".0"
    ELSE cell

\* pd.read_csv of restaurants_opentable.csv: the rows as to_csv will write
\* them back; postal_code is the column whose texts can be numbers.
ReadRestaurantsCsv(file) ==
    LET dtype == InferDtype({file.rows[i].postal_code : i \in DOMAIN file.rows})
    IN [i \in DOMAIN file.rows |->
           [file.rows[i] EXCEPT !.postal_code = RoundTrip(@, dtype)]]

\* pd.read_csv of menu_items_opentable.csv (text columns only).
ReadMenuCsv(file) == file.rows

\* existing_restaurants["source_url"].dropna().tolist() as a set
SourceUrls(rows) ==
    {rows[i].source_url : i \in {j \in DOMAIN rows : rows[j].source_url # ""}}

CollectAnyUrls(organic, existing, target) ==
    LET RECURSIVE Go(_, _)
        Go(rs, acc) ==
            IF rs = <<>> THEN acc
            ELSE LET url == SplitQuery(Head(rs)) IN
                 IF /\ Contains(url, "/r/")
                    /\ Contains(url, "opentable.com")
                    /\ ~\E i \in DOMAIN acc : acc[i] = url
                 THEN Go(Tail(rs), Append(acc, url))
                 ELSE Go(Tail(rs), acc)
    IN FirstN(Go(organic, <<>>), target)
\* The new_urls list of a city: the loop over the organic results, then
\* new_urls[:target].
CollectNewUrls(organic, existing, target) ==
    LET RECURSIVE Go(_, _)
        Go(rs, acc) ==
            IF rs = <<>> THEN acc
            ELSE LET url == SplitQuery(Head(rs)) IN
                 IF /\ Contains(url, "/r/")
                    /\ Contains(url, "opentable.com")
                    /\ url \notin existing
                    /\ ~\E i \in DOMAIN acc : acc[i] = url
                 THEN Go(Tail(rs), Append(acc, url))
                 ELSE Go(Tail(rs), acc)
    IN FirstN(Go(organic, <<>>), target)

\* What the menu scraper answers for one submitted URL: nothing, or an item
\* whose nonNaturalUrl is the URL or missing and whose menus hold no item or
\* one.
ScrapedFor(url) ==
    {<<>>} \cup
    {<<[id |-> url, nonNaturalUrl |-> u, postalCode |-> "97201",
        titles |-> t]>> :
        u \in {url, ""}, t \in {<<>>, <<"Foie Gras Torchon">>}}

\* The items the menu scraper answers for the submitted URLs, in order.
RECURSIVE ScrapedItems(_)
ScrapedItems(submitted) ==
    IF submitted = <<>> THEN {<<>>}
    ELSE {first \o rest : first \in ScrapedFor(Head(submitted)),
                          rest \in ScrapedItems(Tail(submitted))}

\* The restaurant dictionary built from a scraped item.
NewRestaurant(item) ==
    [restaurant_id |-> item.id, source_url |-> item.nonNaturalUrl,
     postal_code |-> item.postalCode]

\* The menu item dictionaries built from a scraped item.
NewMenuItems(item) ==
    [k \in DOMAIN item.titles |->
        [restaurant_id |-> item.id, title |-> item.titles[k]]]

\* The header pd.DataFrame(records).to_csv(..., index=False) writes: the
\* keys of the dictionaries, and no column at all for an empty list.
CsvHeader(records, keys) == IF records = <<>> THEN <<>> ELSE keys

\* The columns process_data reads from restaurants_opentable.csv.
RestaurantColumnsRead ==
    {"restaurant_id", "name", "city", "state", "cuisine_type", "price_band"}
\* The columns process_data reads from menu_items_opentable.csv.
MenuColumnsRead ==
    {"restaurant_id", "title", "description", "section", "price"}

\* The set of the elements of a sequence.
Range(s) == {s[i] : i \in DOMAIN s}

\* Rows of restaurants_opentable.csv before the script runs.
ExistingRestaurantRows ==
    [restaurant_id : {"r0"}, source_url : {"opentable.com/r/a", ""},
     postal_code : PostalCodes]

\* Rows of menu_items_opentable.csv before the script runs.
ExistingMenuRows == [restaurant_id : {"r0"}, title : {"Steak Frites"}]

\* Lines 25-27: the two CSV files are read.
AddLoad ==
    /\ UNCHANGED notAdd
    /\ apc = "load"
    /\ existing_restaurants' = ReadRestaurantsCsv(restaurants_csv)
    /\ existing_menu_items' = ReadMenuCsv(menu_csv)
    /\ existing_urls' = SourceUrls(restaurants_csv.rows)
    /\ apc' = "search"
    /\ UNCHANGED <<a_idx, restaurants_csv, menu_csv, new_urls,
                   all_new_restaurants, all_new_menu_items, csv_writes>>

\* Loop body up to `if not new_urls: continue`: the search and new_urls.
AddSearch ==
    /\ UNCHANGED notAdd
    /\ apc = "search"
    /\ a_idx <= Len(gaps)
    /\ \E organic \in SeqsUpTo(AddResultUrls, MaxAddResults) :
          new_urls' = CollectNewUrls(organic, existing_urls,
                                     gaps[a_idx].target)
    /\ IF new_urls' = <<>>
       THEN a_idx' = a_idx + 1 /\ apc' = "search"
       ELSE a_idx' = a_idx /\ apc' = "scrape"
    /\ UNCHANGED <<restaurants_csv, menu_csv, existing_restaurants,
                   existing_menu_items, existing_urls, all_new_restaurants,
                   all_new_menu_items, csv_writes>>

\* Rest of the loop body: new_urls are submitted to the menu scraper and
\* its items are flattened.
AddScrape ==
    /\ UNCHANGED notAdd
    /\ apc = "scrape"
    /\ \E items \in ScrapedItems(new_urls) :
        /\ all_new_restaurants' = all_new_restaurants \o
              [k \in DOMAIN items |-> NewRestaurant(items[k])]
        /\ all_new_menu_items' = all_new_menu_items \o
              Flatten([k \in DOMAIN items |-> NewMenuItems(items[k])])
        /\ existing_urls' = existing_urls \cup
              {items[k].nonNaturalUrl : k \in DOMAIN items}
    /\ a_idx' = a_idx + 1
    /\ apc' = "search"
    /\ UNCHANGED <<restaurants_csv, menu_csv, existing_restaurants,
                   existing_menu_items, new_urls, csv_writes>>

\* An actor call or a dataset read raises: nothing catches it and the
\* script ends without writing.
AddRaises ==
    /\ UNCHANGED notAdd
    /\ apc \in {"search", "scrape"}
    /\ a_idx <= Len(gaps)
    /\ apc' = "raised"
    /\ UNCHANGED <<a_idx, restaurants_csv, menu_csv, existing_restaurants,
                   existing_menu_items, existing_urls, new_urls,
                   all_new_restaurants, all_new_menu_items, csv_writes>>

\* Lines 139-158: after the loop both files are written when a restaurant
\* was added, none otherwise.
AddWrite ==
    /\ UNCHANGED notAdd
    /\ apc = "search"
    /\ a_idx > Len(gaps)
    /\ IF all_new_restaurants # <<>>
       THEN /\ restaurants_csv' =
                  [exists |-> TRUE, columns |-> RestaurantColumns,
                   rows |-> existing_restaurants \o all_new_restaurants]
            /\ menu_csv' =
                  [exists |-> TRUE, columns |-> MenuItemColumns,
                   rows |-> existing_menu_items \o all_new_menu_items]
            /\ csv_writes' = csv_writes + 2
       ELSE UNCHANGED <<restaurants_csv, menu_csv, csv_writes>>
    /\ apc' = "done"
    /\ UNCHANGED <<a_idx, existing_restaurants, existing_menu_items,
                   existing_urls, new_urls, all_new_restaurants,
                   all_new_menu_items>>

\* The script starts on the two files scrape_opentable_menus.main wrote.
AddInit ==
    /\ apc = "load"
    /\ a_idx = 1
    /\ \E rows \in SeqsUpTo(ExistingRestaurantRows, MaxExisting) \ {<<>>} :
          restaurants_csv = [exists |-> TRUE, columns |-> RestaurantColumns,
                             rows |-> rows]
    /\ \E rows \in SeqsUpTo(ExistingMenuRows, 1) \ {<<>>} :
          menu_csv = [exists |-> TRUE, columns |-> MenuItemColumns,
                      rows |-> rows]
    /\ existing_restaurants = <<>>
    /\ existing_menu_items = <<>>
    /\ existing_urls = {}
    /\ new_urls = <<>>
    /\ all_new_restaurants = <<>>
    /\ all_new_menu_items = <<>>
    /\ csv_writes = 0

AddIdle ==
    /\ apc = "load"
    /\ a_idx = 1
    /\ restaurants_csv = [exists |-> FALSE, columns |-> <<>>, rows |-> <<>>]
    /\ menu_csv = [exists |-> FALSE, columns |-> <<>>, rows |-> <<>>]
    /\ existing_restaurants = <<>>
    /\ existing_menu_items = <<>>
    /\ existing_urls = {}
    /\ new_urls = <<>>
    /\ all_new_restaurants = <<>>
    /\ all_new_menu_items = <<>>
    /\ csv_writes = 0

----------------------------------------------------------------------------
(* add_more_restaurants.py run on the files scrape_opentable_menus.py      *)
(* writes                                                                  *)

\* Most restaurants add_more_restaurants adds to the files, all runs
\* together.
MaxAdded == 1

\* The restaurants of a file that add_more_restaurants added: their ids
\* follow those a scrape batch of the city can carry.
AddedRows(rows) ==
    Filter(rows, LAMBDA r : r.restaurant_id[2] > MaxBatch)

\* The restaurant rows of n restaurants added for city c after `have` others.
AddedRestaurants(c, have, n) ==
    [i \in 1..n |-> RestaurantRecord(c, MaxBatch + have + i)]
\* The menu rows of these restaurants, k items each.
AddedMenuItems(c, have, n, k) ==
    [m \in 1..(n * k) |->
        MenuRecord(c, MaxBatch + have + ((m - 1) \div k) + 1,
                   ((m - 1) % k) + 1)]

\* A whole run of add_more_restaurants that scrapes n >= 1 new restaurants
\* of a city: both files are read, the new rows are concatenated to the
\* rows read and both files are rewritten.  pd.read_csv raises on a file
\* that is absent or has no columns, and the run then writes nothing.
AddMoreRun ==
    /\ UNCHANGED notScrape
    /\ script = "opentable"
    /\ pc \in {"idle", "done"}
    /\ outRestaurants.exists /\ outRestaurants.rows # <<>>
    /\ outMenus.exists /\ outMenus.rows # <<>>
    /\ LET have == Len(AddedRows(outRestaurants.rows)) IN
       \E c \in Cities, n \in 1..(MaxAdded - have), k \in MenuChoices :
          /\ outRestaurants' =
                [exists |-> TRUE,
                 rows |-> outRestaurants.rows \o AddedRestaurants(c, have, n)]
          /\ outMenus' =
                [exists |-> TRUE,
                 rows |-> outMenus.rows \o AddedMenuItems(c, have, n, k)]
    /\ UNCHANGED <<script, progressFile, pc, idx, completed_cities,
                   all_restaurants, all_menu_items, loaded, calls, wrote>>

----------------------------------------------------------------------------
(* save_progress and load_progress (scrape_opentable_menus.py,             *)
(* scrape_doordash_menus.py, scrape_menus.py), at the level of the text    *)
(* of the progress file                                                    *)

\* Most checkpoints a script saves, all runs together.
MaxCheckpoints == 4

\* A progress dict is identified by the number of cities (restaurants, for
\* scrape_menus.py) it records.
\* json.dump(progress, f): the chunks of text written to the file, in order.
Serialize(n) == <<"{">> \o [i \in 1..n |-> "entry"] \o <<"}">>

\* json.load(f): the progress a text parses to, or a JSONDecodeError for a
\* text that is not a complete document.
ParseJson(text) ==
    IF \E n \in 0..MaxCheckpoints : text = Serialize(n)
    THEN [status |-> "ok",
          value |-> CHOOSE n \in 0..MaxCheckpoints : text = Serialize(n)]
    ELSE [status |-> "JSONDecodeError", value |-> 0]

\* load_progress: the default when the file is absent, else json.load.
LoadProgressText(file) ==
    IF file.exists THEN ParseJson(file.text)
    ELSE [status |-> "ok", value |-> 0]

\* The script starts and calls load_progress; a JSONDecodeError is not
\* caught and ends the script.
SaveStart ==
    /\ UNCHANGED notSave
    /\ cpc \in {"idle", "done"}
    /\ load_result' = LoadProgressText(checkpoint_file)
    /\ IF load_result'.status = "ok"
       THEN cpc' = "running" /\ progress' = load_result'.value
       ELSE cpc' = "failed" /\ UNCHANGED progress
    /\ UNCHANGED <<checkpoint_file, saved_before, being_written>>

\* One more city is recorded and save_progress opens the file with 'w',
\* which truncates it.
SaveOpen ==
    /\ UNCHANGED notSave
    /\ cpc = "running"
    /\ progress < MaxCheckpoints
    /\ progress' = progress + 1
    /\ saved_before' = IF checkpoint_file.exists
                       THEN ParseJson(checkpoint_file.text).value ELSE 0
    /\ being_written' = progress + 1
    /\ checkpoint_file' = [exists |-> TRUE, text |-> <<>>]
    /\ cpc' = "saving"
    /\ UNCHANGED load_result

\* json.dump writes the next chunk; after the last one the file is closed.
SaveWrite ==
    /\ UNCHANGED notSave
    /\ cpc = "saving"
    /\ LET text == Serialize(progress)
           pos == Len(checkpoint_file.text) + 1
       IN /\ checkpoint_file' =
                [exists |-> TRUE,
                 text |-> Append(checkpoint_file.text, text[pos])]
          /\ cpc' = IF pos = Len(text) THEN "running" ELSE "saving"
    /\ UNCHANGED <<progress, load_result, saved_before, being_written>>

\* The process is killed, between two saves or in the middle of one: the
\* memory is lost, the file stays as it is.
SaveCrash ==
    /\ UNCHANGED notSave
    /\ cpc \in {"running", "saving"}
    /\ cpc' = "idle"
    /\ progress' = 0
    /\ UNCHANGED <<checkpoint_file, load_result, saved_before, being_written>>

\* The script ends normally.
SaveFinish ==
    /\ UNCHANGED notSave
    /\ cpc = "running"
    /\ cpc' = "done"
    /\ progress' = 0
    /\ UNCHANGED <<checkpoint_file, load_result, saved_before, being_written>>

\* No progress file yet and no script running.
SaveInit ==
    /\ cpc = "idle"
    /\ checkpoint_file = [exists |-> FALSE, text |-> <<>>]
    /\ progress = 0
    /\ load_result = [status |-> "ok", value |-> 0]
    /\ saved_before = 0
    /\ being_written = 0

SaveIdle == SaveInit

----------------------------------------------------------------------------
ScrapeNext ==
    \/ StartRun
    \/ OTCity
    \/ DDCity
    \/ WriteOutputs
    \/ FinishRun
    \/ Crash

InitScrape == ScrapeInit /\ YelpIdle /\ DashIdle /\ AppIdle /\ GenIdle
    /\ FetchIdle /\ SearchIdle /\ CityIdle /\ AddIdle /\ SaveIdle

SpecScrape == InitScrape /\ [][ScrapeNext]_vars

\* The two OpenTable scripts run one after the other, in any order, on the
\* same two CSV files.
PipelineNext ==
    \/ StartRun
    \/ OTCity
    \/ DDCity
    \/ WriteOutputs
    \/ FinishRun
    \/ Crash
    \/ AddMoreRun

SpecPipeline == InitScrape /\ [][PipelineNext]_vars

YelpNext ==
    \/ YelpStart
    \/ YelpRow
    \/ YelpFinish
    \/ YelpCrash

InitYelp == ScrapeIdle /\ YelpInit /\ DashIdle /\ AppIdle /\ GenIdle
    /\ FetchIdle /\ SearchIdle /\ CityIdle /\ AddIdle /\ SaveIdle

SpecYelp == InitYelp /\ [][YelpNext]_vars

DashNext == RunProcessData

InitDash == ScrapeIdle /\ YelpIdle /\ DashInit /\ AppIdle /\ GenIdle
    /\ FetchIdle /\ SearchIdle /\ CityIdle /\ AddIdle /\ SaveIdle

SpecDash == InitDash /\ [][DashNext]_vars

AppNext ==
    \/ Request
    \/ WriteDataJson
    \/ RemoveDataJson
    \/ WriteCsvFiles

InitApp == ScrapeIdle /\ YelpIdle /\ DashIdle /\ AppInit /\ GenIdle
    /\ FetchIdle /\ SearchIdle /\ CityIdle /\ AddIdle /\ SaveIdle

SpecApp == InitApp /\ [][AppNext]_vars

GenNext ==
    \/ GenFetch
    \/ GenSample

InitGen == ScrapeIdle /\ YelpIdle /\ DashIdle /\ AppIdle /\ GenInit
    /\ FetchIdle /\ SearchIdle /\ CityIdle /\ AddIdle /\ SaveIdle

SpecGen == InitGen /\ [][GenNext]_vars

FetchNext ==
    \/ FetchPageError
    \/ FetchPage
    \/ FetchLoopEnd

InitFetch == ScrapeIdle /\ YelpIdle /\ DashIdle /\ AppIdle /\ GenIdle
    /\ FetchInit /\ SearchIdle /\ CityIdle /\ AddIdle /\ SaveIdle

SpecFetch == InitFetch /\ [][FetchNext]_vars

\* Every request is answered or fails, and the interpreter keeps running
\* the loop.
SpecFetchFair == SpecFetch /\ WF_vars(FetchNext)

SearchNext ==
    \/ SearchReturns
    \/ SearchRaises

InitSearch == ScrapeIdle /\ YelpIdle /\ DashIdle /\ AppIdle /\ GenIdle
    /\ FetchIdle /\ SearchInit /\ CityIdle /\ AddIdle /\ SaveIdle

SpecSearch == InitSearch /\ [][SearchNext]_vars

CityNext ==
    \/ CitySearchRaises
    \/ CitySearch
    \/ CityReturn

InitCity == ScrapeIdle /\ YelpIdle /\ DashIdle /\ AppIdle /\ GenIdle
    /\ FetchIdle /\ SearchIdle /\ CityInit /\ AddIdle /\ SaveIdle

SpecCity == InitCity /\ [][CityNext]_vars

AddNext ==
    \/ AddLoad
    \/ AddSearch
    \/ AddScrape
    \/ AddRaises
    \/ AddWrite

InitAdd == ScrapeIdle /\ YelpIdle /\ DashIdle /\ AppIdle /\ GenIdle
    /\ FetchIdle /\ SearchIdle /\ CityIdle /\ AddInit /\ SaveIdle

SpecAdd == InitAdd /\ [][AddNext]_vars

SaveNext ==
    \/ SaveStart
    \/ SaveOpen
    \/ SaveWrite
    \/ SaveCrash
    \/ SaveFinish

InitSave == ScrapeIdle /\ YelpIdle /\ DashIdle /\ AppIdle /\ GenIdle
    /\ FetchIdle /\ SearchIdle /\ CityIdle /\ AddIdle /\ SaveInit

SpecSave == InitSave /\ [][SaveNext]_vars

----------------------------------------------------------------------------
(* Claims.                                                                 *)

\* C1: in a run of scrape_opentable_menus.main or scrape_doordash_menus.main
\* started with an existing progress file, no search or scrape call is
\* issued for a city listed in completed_cities, and every restaurant and
\* menu record stored in the progress file is still present, unchanged and in
\* the same order, at the head of the lists the run holds and of every file
\* the run has written.
C1_ResumeSkipsAndKeeps ==
    loaded.exists =>
        /\ \A call \in calls : call[2] \notin loaded.completed_cities
        /\ IsPrefix(loaded.restaurants, all_restaurants)
        /\ IsPrefix(loaded.menu_items, all_menu_items)
        /\ "progress" \in wrote =>
              /\ IsPrefix(loaded.restaurants, progressFile.restaurants)
              /\ IsPrefix(loaded.menu_items, progressFile.menu_items)
              /\ loaded.completed_cities \subseteq progressFile.completed_cities
        /\ "outputs" \in wrote =>
              /\ IsPrefix(loaded.restaurants, outRestaurants.rows)
              /\ IsPrefix(loaded.menu_items, outMenus.rows)

\* A resumed run that skipped a completed city, scraped another one and
\* wrote its outputs after records loaded from the checkpoint.
C1_Witness ==
    /\ pc = "done"
    /\ loaded.exists
    /\ loaded.completed_cities # {}
    /\ Len(loaded.restaurants) > 0
    /\ Len(loaded.menu_items) > 0
    /\ calls # {}
    /\ "outputs" \in wrote
    /\ Len(outRestaurants.rows) > Len(loaded.restaurants)

\* The ids of the restaurants that a results list holds with a menu.
IdsWithMenu(rs) ==
    {rs[i].restaurant_id : i \in {j \in DOMAIN rs : rs[j].has_menu}}

NoDuplicateIds(rs) ==
    \A i, j \in DOMAIN rs : rs[i].restaurant_id = rs[j].restaurant_id => i = j

\* C2: across runs of scrape_menus.main that share scrape_progress.json, a
\* restaurant whose id is in the persisted 'processed' list is never looked
\* up or scraped again, and no restaurant_id occurs twice in 'results'.
C2_ProcessedNeverRepeated ==
    /\ []NoDuplicateIds(yProgressFile.results)
    /\ [][lastCall' # "none" => lastCall' \notin yProgressFile.processed]_vars

\* A resumed run whose last iteration skipped a persisted restaurant without
\* a lookup, with another restaurant still to be looked up.
C2_Witness ==
    /\ ypc = "loop"
    /\ yidx = 2
    /\ lastCall = "none"
    /\ df[1] \in yProgressFile.processed
    /\ Len(yProgressFile.results) = 1
    /\ Len(df) = 3
    /\ df[3] \notin yProgressFile.processed

\* C3: when a run of scrape_menus.main finishes, errors.csv holds an error
\* row for every restaurant of the processed set for which no menu was
\* obtained, those processed in an earlier run included.
C3_ErrorsCoverProcessed ==
    ypc = "done" =>
        \A r \in yProgressFile.processed \ IdsWithMenu(yProgressFile.results) :
            \E i \in DOMAIN errorsCsv.rows : errorsCsv.rows[i].restaurant_id = r

\* C4: for every state entry, city entry and price-tier entry returned by
\* process_data, the number of restaurants with foie gras is at most the
\* entry's total restaurant count, repeated restaurant_id rows included.
C4_GroupNumeratorWithinDenominator ==
    output # <<>> =>
        LET out == output[1] IN
        /\ \A i \in DOMAIN out.states :
               out.states[i].restaurants_with_foie
                   <= out.states[i].restaurant_count
        /\ \A i \in DOMAIN out.cities :
               out.cities[i].restaurants_with_foie
                   <= out.cities[i].restaurant_count
        /\ \A i \in DOMAIN out.price_tier_foie :
               out.price_tier_foie[i].with_foie <= out.price_tier_foie[i].total

\* Two rows of the same restaurant, which serves foie gras, in one state,
\* one city and one price tier, while another restaurant's foie gras item
\* is on the menu table as well.
C4_Witness ==
    /\ output # <<>>
    /\ Len(restaurants_df) = 2
    /\ restaurants_df[1] = restaurants_df[2]
    /\ output[1].stats.restaurants_with_foie = 2
    /\ \E i \in DOMAIN output[1].states :
           /\ output[1].states[i].restaurant_count = 2
           /\ output[1].states[i].restaurants_with_foie = 1
    /\ \E i \in DOMAIN output[1].cities :
           output[1].cities[i].restaurants_with_foie = 1
    /\ \E i \in DOMAIN output[1].price_tier_foie :
           output[1].price_tier_foie[i].with_foie = 1

\* C5: in the stats returned by process_data, restaurants_with_foie is at
\* most total_restaurants for any pair of input tables.
C5_StatsNumeratorWithinDenominator ==
    output # <<>> =>
        output[1].stats.restaurants_with_foie
            <= output[1].stats.total_restaurants

\* C6: in european_insight, foie_count is at most the number of restaurants
\* with foie gras, so foie_pct lies between 0 and 100 (1000 tenths), and
\* foie_count <= total_count with total_pct between 0 and 100.
C6_EuropeanInsightWithinBounds ==
    output # <<>> =>
        LET e == output[1].european_insight IN
        /\ e.foie_count <= output[1].stats.restaurants_with_foie
        /\ 0 <= e.foie_pct /\ e.foie_pct <= 1000
        /\ e.foie_count <= e.total_count
        /\ 0 <= e.total_pct /\ e.total_pct <= 1000

\* The names a restaurant row may carry instead of its own.
OtherNames == {"Le Canard", "Chez Panache"}

\* C7: the value returned by process_data holds no field copied from an
\* individual row: changing one restaurant's name, which changes no count
\* and no aggregate, leaves the value unchanged.
C7_NoRawDataExposed ==
    output # <<>> =>
        \A i \in DOMAIN restaurants_df : \A n \in OtherNames :
            ProcessData([restaurants_df EXCEPT ![i].name = n], menu_df)
                = output[1]

\* The key served by a route.
KeyOf(route) == (CHOOSE e \in Endpoints : e.route = route).key

\* C8: the dashboard data is pre-computed on startup: every step that
\* answers a request with data starts with dashboard_data populated and
\* leaves it as it is, so no request handler performs the load.
C8_LoadedBeforeFirstRequest ==
    [][(response' # response /\ response'[1].status = "200") =>
          dashboard_data # <<>> /\ dashboard_data' = dashboard_data]_vars

C10_EveryCityMeetsTarget ==
    gpc = "done" =>
        /\ \A i \in DOMAIN results_summary :
              results_summary[i].actual = results_summary[i].target
        /\ Len(all_sampled) = TotalTarget

\* C10 amended: a city's sampled count is the smaller of its target and the
\* number of restaurants fetched for it, so it never exceeds the target;
\* the rows are the sum of the sampled counts, at most the sum of the
\* targets.
C10_EveryCityAtMostTarget ==
    /\ [](/\ \A i \in DOMAIN results_summary :
                results_summary[i].actual <= results_summary[i].target
          /\ Len(all_sampled) =
                SumSeq([i \in DOMAIN results_summary |->
                           results_summary[i].actual])
          /\ Len(all_sampled) <= TotalTarget)
    /\ [][gpc = "sample" =>
             results_summary'[gidx].actual =
                 Min(TARGET_COUNTS[gidx].target, Len(restaurants))]_vars

\* Finished with the first city short of its target and the second sampled
\* down to its target from a longer list.
C10_Witness ==
    /\ gpc = "done"
    /\ results_summary[1].actual < results_summary[1].target
    /\ results_summary[2].actual = results_summary[2].target
    /\ Len(restaurants) > results_summary[2].target
    /\ Len(all_sampled) < TotalTarget

\* The list the step appended to all_sampled: the value
\* random_sample_restaurants returned for the city.
ReturnedSample == SubSeq(all_sampled', Len(all_sampled) + 1, Len(all_sampled'))

\* The restaurants of rs that are not chains, in order.
NonChains(rs) == Filter(rs, LAMBDA r : ~is_chain_restaurant(r.name))

\* C11: the list random_sample_restaurants returns holds only elements of
\* the input, no position of the input twice, never more than target_count
\* elements, exactly target_count when the input holds at least that many,
\* and is the candidate list itself when that list holds at most
\* target_count elements.
C11_SampleWithinInput ==
    [][gpc = "sample" =>
          LET s == ReturnedSample
              t == TARGET_COUNTS[gidx].target
          IN /\ \A i \in DOMAIN s : \E k \in DOMAIN restaurants :
                    s[i] = restaurants[k]
             /\ \A i, j \in DOMAIN s : i # j => s[i] # s[j]
             /\ Len(s) <= t
             /\ Len(restaurants) >= t => Len(s) = t
             /\ Len(restaurants) <= t => s = restaurants
             /\ Len(NonChains(restaurants)) = t => s = NonChains(restaurants)]_vars

\* Two of three fetched restaurants were sampled for the first city, in an
\* order other than the input's.
C11_Witness ==
    /\ gidx = 2
    /\ Len(restaurants) = 3
    /\ results_summary[1].actual = 2
    /\ all_sampled[1] = restaurants[3]
    /\ all_sampled[2] = restaurants[1]

\* C12: with exclude_chains true, when at least target_count of the input
\* restaurants are not chains the returned sample holds no chain; a chain is
\* in the sample only when fewer non-chains than target_count were supplied.
C12_NoChainWhenEnoughNonChains ==
    [][(gpc = "sample" /\ exclude_chains) =>
          LET s == ReturnedSample
              t == TARGET_COUNTS[gidx].target
          IN /\ Len(NonChains(restaurants)) >= t =>
                    \A i \in DOMAIN s : ~is_chain_restaurant(s[i].name)
             /\ (\E i \in DOMAIN s : is_chain_restaurant(s[i].name)) =>
                    Len(NonChains(restaurants)) < t]_vars

\* The first city was sampled from one chain and two non-chains and the
\* sample holds the two non-chains.
C12_Witness ==
    /\ gidx = 2
    /\ Len(restaurants) = 3
    /\ is_chain_restaurant(restaurants[2].name)
    /\ Len(NonChains(restaurants)) = 2
    /\ results_summary[1].actual = 2
    /\ \A i \in 1..2 : ~is_chain_restaurant(all_sampled[i].name)

FirstAppearance(u) ==
    CHOOSE i \in DOMAIN organic_results :
        /\ SplitQuery(organic_results[i]) = u
        /\ \A j \in 1..(i - 1) : SplitQuery(organic_results[j]) # u

\* C14: search_opentable_urls returns at most target_count URLs, pairwise
\* distinct, each containing '/r/' and 'opentable.com' and none containing
\* '?', in order of first appearance in the search results; when the search
\* raises it returns the empty list.
C14_SearchReturnsRestaurantUrls ==
    /\ spc = "raised" => urls = <<>>
    /\ spc = "returned" =>
          /\ Len(urls) <= s_target_count
          /\ \A i, j \in DOMAIN urls : i # j => urls[i] # urls[j]
          /\ \A i \in DOMAIN urls :
                /\ Contains(urls[i], "/r/")
                /\ Contains(urls[i], "opentable.com")
                /\ ~Contains(urls[i], "?")
          /\ \A i, j \in DOMAIN urls :
                i < j => FirstAppearance(urls[i]) < FirstAppearance(urls[j])

\* C15: scrape_city returns at most target_count restaurants, no two with
\* the same storeId, each with a menu of at least 3 items and tagged with
\* the requested city and state; an exception in one search term is
\* swallowed: what was collected is kept and the next search term is tried.
C15_CityRestaurantsWithinContract ==
    /\ [](dpc = "returned" =>
            /\ Len(returned) <= d_target_count
            /\ \A i, j \in DOMAIN returned :
                  i # j => returned[i].storeId # returned[j].storeId
            /\ \A i \in DOMAIN returned :
                  /\ returned[i].menu >= 3
                  /\ returned[i].city = d_city
                  /\ returned[i].state = d_state)
    /\ [][caught' > caught =>
             /\ dpc' = "loop"
             /\ term_idx' = term_idx + 1
             /\ IsPrefix(d_all_restaurants, d_all_restaurants')]_vars

\* Two restaurants were returned although one search raised, and a later
\* search term supplied the second of them.
C15_Witness ==
    /\ dpc = "returned"
    /\ caught = 1
    /\ term_idx = 4
    /\ d_target_count = 2
    /\ Len(returned) = 2
    /\ d_city = "Boston"

\* C16: in add_more_restaurants the URLs submitted to the menu scraper for
\* a city are pairwise distinct, at most the city's gap target, and none is
\* a source_url of restaurants_opentable.csv or of a restaurant added
\* earlier in the run.
C16_SubmittedUrlsAreNew ==
    apc = "scrape" =>
        /\ \A i, j \in DOMAIN new_urls : i # j => new_urls[i] # new_urls[j]
        /\ Len(new_urls) <= gaps[a_idx].target
        /\ \A i \in DOMAIN new_urls :
              /\ new_urls[i] \notin SourceUrls(restaurants_csv.rows)
              /\ \A k \in DOMAIN all_new_restaurants :
                    all_new_restaurants[k].source_url # new_urls[i]

\* The second city submits a URL while the file holds /r/a and the first
\* city added /r/b.
C16_Witness ==
    /\ apc = "scrape"
    /\ a_idx = 2
    /\ "opentable.com/r/a" \in SourceUrls(restaurants_csv.rows)
    /\ \E k \in DOMAIN all_new_restaurants :
          all_new_restaurants[k].source_url = "opentable.com/r/b"
    /\ new_urls = <<"opentable.com/r/c">>

\* C17: add_more_restaurants only appends: the step that ends the script
\* leaves every row the two files held in place, in order, followed by the
\* new rows, and writes neither file when no restaurant was scraped.
C17_OnlyAppends ==
    [][apc' = "done" =>
          IF all_new_restaurants = <<>>
          THEN /\ csv_writes' = csv_writes
               /\ restaurants_csv' = restaurants_csv
               /\ menu_csv' = menu_csv
          ELSE /\ restaurants_csv'.rows =
                      restaurants_csv.rows \o all_new_restaurants
               /\ menu_csv'.rows = menu_csv.rows \o all_new_menu_items]_vars

\* C18: whenever scrape_opentable_menus.main has written
\* restaurants_opentable.csv and menu_items_opentable.csv, both files hold
\* every column process_data reads, also when the scraped restaurants have
\* no menu items.
C18_CsvColumnsSufficient ==
    (script = "opentable" /\ outRestaurants.exists /\ outMenus.exists) =>
        /\ RestaurantColumnsRead \subseteq
               Range(CsvHeader(outRestaurants.rows, RestaurantColumns))
        /\ MenuColumnsRead \subseteq
               Range(CsvHeader(outMenus.rows, MenuItemColumns))

\* The sum of the values of a function with a finite domain.
RECURSIVE SumOf(_)
SumOf(f) ==
    IF DOMAIN f = {} THEN 0
    ELSE LET k == CHOOSE k \in DOMAIN f : TRUE
         IN f[k] + SumOf([j \in DOMAIN f \ {k} |-> f[j]])

\* The foie gras items of the menu table whose section name contains
\* 'entrees' or 'entrées'.
EntreesFoieItems ==
    {i \in DOMAIN menu_df :
        /\ IsFoie(menu_df[i])
        /\ \/ Contains(StrLower(menu_df[i].section), "entrees")
           \/ Contains(StrLower(menu_df[i].section), "entrées")}

\* C19: a foie gras item whose section name contains 'entrees' or 'entrées'
\* is counted under 'Main Courses' in foie_sections.
C19_EntreesAreMainCourses ==
    (output # <<>> /\ EntreesFoieItems # {}) =>
        /\ "Main Courses" \in DOMAIN output[1].foie_sections
        /\ output[1].foie_sections["Main Courses"] >=
               Cardinality(EntreesFoieItems)

C21_AddedRowsRemain ==
    [][script = "opentable" =>
          /\ \A r \in Range(AddedRows(outRestaurants.rows)) :
                r \in Range(outRestaurants'.rows)
          /\ \A m \in Range(AddedRows(outMenus.rows)) :
                m \in Range(outMenus'.rows)]_vars

\* C22: whenever a run of scrape_opentable_menus.main has terminated
\* normally, also a run restarted after a crash of an earlier run,
\* restaurants_opentable.csv and menu_items_opentable.csv hold exactly the
\* restaurants and menu_items lists of opentable_progress.json.
C22_CsvEqualsProgress ==
    (script = "opentable" /\ pc = "done") =>
        /\ outRestaurants.rows = progressFile.restaurants
        /\ outMenus.rows = progressFile.menu_items

\* C23: after a crash at any point of a run, also in the middle of
\* save_progress, load_progress of the restarted script returns the progress
\* saved before the interrupted write or the progress being written, never
\* a failure.
C23_CheckpointLoadsAfterCrash ==
    /\ load_result.status = "ok"
    /\ cpc # "failed"
    /\ load_result.value \in {saved_before, being_written}

====
